---- MODULE Spec2Model ----
(***************************************************************************)
(* A model of ReplicationProcessing_2022-12.py: the five processing stages *)
(* STAGE1..STAGE5 on a pandas DataFrame and the driver PROCESS that runs    *)
(* them over every input file.                                              *)
(*                                                                          *)
(* A DataFrame is [columns, rows]; a row is [label, cells], label being the *)
(* pandas index label of the row and cells a function from column names to  *)
(* cells.  A cell is [k, n, d, s, c]:                                       *)
(*   k = "nan"   missing (NaN)                                              *)
(*   k = "num"   the number n / (2 * d)  (n counts halves, so 0.5 is n = 1) *)
(*   k = "sqrt"  the number sqrt(n / d) / 2  (a standard deviation)         *)
(*   k = "str"   a string: s for a categorical answer, c (a sequence of     *)
(*               characters) for the free text that STAGE5 tokenizes        *)
(***************************************************************************)
EXTENDS Integers, Sequences, FiniteSets, TLC

VARIABLES files, i, pc, err, df, df_stage1, df_stage2, df_stage3, df_stage4,
          word_counts, processed_dfs, out_files

vars == <<files, i, pc, err, df, df_stage1, df_stage2, df_stage3, df_stage4,
          word_counts, processed_dfs, out_files>>

(* ------------------------------ bounds -------------------------------- *)
MaxRows == 4

MaxTokens == 2

MaxFiles == 2

(* ------------------------------ cells --------------------------------- *)
Units(x) == 2 * x

NaN == [k |-> "nan", n |-> 0, d |-> 1, s |-> "", c |-> <<>>]

Num(n) == [k |-> "num", n |-> n, d |-> 1, s |-> "", c |-> <<>>]

Ratio(n, d) == [k |-> "num", n |-> n, d |-> d, s |-> "", c |-> <<>>]

Sqrt(n, d) == [k |-> "sqrt", n |-> n, d |-> d, s |-> "", c |-> <<>>]

Str(s) == [k |-> "str", n |-> 0, d |-> 1, s |-> s, c |-> <<>>]

Txt(c) == [k |-> "str", n |-> 0, d |-> 1, s |-> "", c |-> c]

(* The strings of the input universe that parse as numbers, with the value
   (in halves) float() gives them. *)
NumericStrings ==
    ("100" :> Units(100)) @@ ("25" :> Units(25)) @@ ("1" :> Units(1)) @@
    ("2" :> Units(2)) @@ ("3" :> Units(3)) @@ ("5" :> Units(5)) @@ ("0.5" :> 1)

(* pd.to_numeric(series, errors='coerce') on one cell *)
to_numeric(x) ==
    CASE x.k = "num" -> x
      [] x.k = "sqrt" -> x
      [] x.k = "str" -> IF x.s \in DOMAIN NumericStrings
                        THEN Num(NumericStrings[x.s]) ELSE NaN
      [] OTHER -> NaN

(* series > t and series < t on one numeric cell: False on NaN *)
Gt(x, t) == x.k = "num" /\ x.n > Units(t) * x.d

Lt(x, t) == x.k = "num" /\ x.n < Units(t) * x.d

(* ----------------------------- columns -------------------------------- *)
QNames ==
    << "Q1", "Q2", "Q3", "Q4", "Q5", "Q6", "Q7", "Q8", "Q9", "Q10",
       "Q11", "Q12", "Q13", "Q14", "Q15", "Q16", "Q17", "Q18", "Q19", "Q20",
       "Q21", "Q22", "Q23", "Q24", "Q25", "Q26", "Q27", "Q28", "Q29", "Q30",
       "Q31", "Q32", "Q33", "Q34", "Q35", "Q36", "Q37", "Q38", "Q39", "Q40",
       "Q41", "Q42", "Q43", "Q44", "Q45", "Q46", "Q47", "Q48", "Q49", "Q50",
       "Q51", "Q52", "Q53", "Q54", "Q55", "Q56" >>

QRange(a, b) == { QNames[j] : j \in a..b }

filler_cols == QRange(36, 55)

animate_cols == QRange(10, 21)

inanimate_cols == QRange(22, 33)

correct_cols == QRange(36, 46)

incorrect_cols == QRange(47, 55)

renaming_dict ==
    ("Q4" :> "Gender") @@ ("Q5" :> "Education") @@ ("Q6" :> "Native Language")

recode_dict ==
    ("Gender" :> (("Male" :> "1") @@ ("Female" :> "2") @@
        ("I do not identify with one of the above categories" :> "3"))) @@
    ("Education" :> (("Other" :> "1") @@
        ("Compulsory education (e.g., primary school, high school, ...)" :> "2") @@
        ("Higher education (e.g., bachelor, master, Ph.D., ...)" :> "3"))) @@
    ("Native Language" :> (("Other" :> "1") @@ ("English" :> "2")))

new_cols ==
    { "Animate (average interaction rating)", "Animate (SD)", "Animate (n)",
      "Inanimate (average interaction rating)", "Inanimate (SD)", "Inanimate (n)",
      "Filler score (correct)", "Filler score (incorrect)", "Filler score",
      "Words (pre-processed)", "Words (incorrectly spelled)",
      "Words (corrected spelling)" }

rem_cols ==
    { "StartDate", "EndDate", "Status", "Progress", "Duration (in seconds)",
      "Finished", "RecordedDate", "ResponseId", "DistributionChannel",
      "UserLanguage" }

(* ---------------------------- DataFrame ------------------------------- *)
NoDF == [columns |-> {}, rows |-> <<>>]

Row(label, cells) == [label |-> label, cells |-> cells]

(* df[col] = pd.to_numeric(df[col], errors='coerce') *)
ToNumericCol(frame, col) ==
    [frame EXCEPT !.rows =
        [r \in DOMAIN frame.rows |->
            [frame.rows[r] EXCEPT !.cells[col] = to_numeric(@)]]]

(* df[col] = values, one per row, for a column that may be new *)
SetCol(frame, col, values) ==
    [columns |-> frame.columns \cup {col},
     rows |-> [r \in DOMAIN frame.rows |->
        Row(frame.rows[r].label,
            [cc \in frame.columns \cup {col} |->
                IF cc = col THEN values[r] ELSE frame.rows[r].cells[cc]])]]

(* df[mask], mask the set of positions to keep: those rows, in their order *)
RECURSIVE KeepFrom(_, _, _)
KeepFrom(rows, mask, r) ==
    IF r > Len(rows) THEN <<>>
    ELSE (IF r \in mask THEN <<rows[r]>> ELSE <<>>) \o KeepFrom(rows, mask, r + 1)

Filter(frame, mask) == [frame EXCEPT !.rows = KeepFrom(frame.rows, mask, 1)]

(* df[col] > t as a mask *)
MaskGt(frame, col, t) ==
    { r \in DOMAIN frame.rows : Gt(frame.rows[r].cells[col], t) }

(* ------------------------------ STAGE 1 ------------------------------- *)
(* df.drop(df.index[1], inplace=True): the row(s) carrying the label of the
   second position are removed; df.index[1] needs two rows. *)
DropSecondRow(frame) ==
    Filter(frame, { r \in DOMAIN frame.rows :
                        frame.rows[r].label # frame.rows[2].label })

STAGE1_error(frame) ==
    IF Len(frame.rows) < 2 THEN "IndexError"
    ELSE IF "Progress" \notin frame.columns \/ "Q3" \notin frame.columns
         THEN "KeyError"
         ELSE "none"

(* AssignSubID with a fault: the identifier taken from the position the record
   had in the raw table, as if numbered before the exclusion. *)
AssignSubID_FromLabel(frame) ==
    SetCol(frame, "SubID",
           [r \in DOMAIN frame.rows |-> Num(Units(frame.rows[r].label + 1))])

(* df['SubID'] = range(1, len(df) + 1) *)
AssignSubID(frame) ==
    SetCol(frame, "SubID", [r \in 1..Len(frame.rows) |-> Num(Units(r))])

STAGE1(frame) ==
    LET d1 == DropSecondRow(frame)
        d2 == ToNumericCol(d1, "Progress")
        d3 == ToNumericCol(d2, "Q3")
        d4 == Filter(d3, MaskGt(d3, "Progress", 99))
        d5 == Filter(d4, MaskGt(d4, "Q3", 18))
    IN  AssignSubID(d5)

(* ------------------------------ STAGE 2 ------------------------------- *)
Renamed(col) == IF col \in DOMAIN renaming_dict THEN renaming_dict[col] ELSE col

(* df.rename(columns=renaming_dict, inplace=True) *)
Rename(frame) ==
    LET cols2 == { Renamed(o) : o \in frame.columns }
        Old(col) == CHOOSE o \in frame.columns : Renamed(o) = col
    IN  [columns |-> cols2,
         rows |-> [r \in DOMAIN frame.rows |->
            Row(frame.rows[r].label,
                [col \in cols2 |-> frame.rows[r].cells[Old(col)]])]]

(* df.replace(recode_dict, inplace=True) on one cell of column col: a value
   that is no key of the column's map is left as it is *)
Recode(col, x) ==
    IF col \in DOMAIN recode_dict /\ x.k = "str" /\ x.s \in DOMAIN recode_dict[col]
    THEN Str(recode_dict[col][x.s])
    ELSE x

STAGE2(frame) ==
    LET d1 == Rename(frame)
    IN  [d1 EXCEPT !.rows =
            [r \in DOMAIN d1.rows |->
                [d1.rows[r] EXCEPT !.cells =
                    [col \in d1.columns |-> Recode(col, d1.rows[r].cells[col])]]]]

(* ------------------------------ STAGE 3 ------------------------------- *)
STAGE3(frame) ==
    LET cols3 == (frame.columns \cup new_cols) \ rem_cols
    IN  [columns |-> cols3,
         rows |-> [r \in DOMAIN frame.rows |->
            Row(frame.rows[r].label,
                [col \in cols3 |->
                    IF col \in new_cols THEN NaN ELSE frame.rows[r].cells[col]])]]

(* ------------------------------ STAGE 4 ------------------------------- *)
Q11_value == 7

(* lines 84-86: to_numeric, then np.where(> 1, 1, .), then np.where(< 0, 0, .) *)
Clamp(x) ==
    LET f == to_numeric(x)
        a == IF Gt(f, 1) THEN Num(Units(1)) ELSE f
    IN  IF Lt(a, 0) THEN Num(Units(0)) ELSE a

(* line 96: np.where(df['Q11'] != 1, df['Q11'] - Q11_value, df['Q11']) *)
AdjustQ11(x) ==
    IF x.k = "num"
    THEN IF x.n # Units(1) * x.d THEN Num(x.n - Units(Q11_value)) ELSE x
    ELSE NaN

Present(cells, cols) == { col \in cols : cells[col].k = "num" }

RECURSIVE SumOf(_, _)
SumOf(cells, cols) ==
    IF cols = {} THEN 0
    ELSE LET col == CHOOSE x \in cols : TRUE
         IN  cells[col].n + SumOf(cells, cols \ {col})

RECURSIVE SumSqOf(_, _)
SumSqOf(cells, cols) ==
    IF cols = {} THEN 0
    ELSE LET col == CHOOSE x \in cols : TRUE
         IN  cells[col].n * cells[col].n + SumSqOf(cells, cols \ {col})

(* df.loc[:, cols].mean(axis=1): NaN cells are skipped *)
RowMean(cells, cols) ==
    LET p == Present(cells, cols)
    IN  IF p = {} THEN NaN ELSE Ratio(SumOf(cells, p), Cardinality(p))

(* RowStd with a fault: the population standard deviation (ddof = 0). *)
RowStd_Population(cells, cols) ==
    LET p == Present(cells, cols)
        m == Cardinality(p)
    IN  IF m < 1 THEN NaN
        ELSE Sqrt(m * SumSqOf(cells, p) - SumOf(cells, p) * SumOf(cells, p), m * m)

(* df.loc[:, cols].std(axis=1): the sample standard deviation (ddof = 1)
   of the cells that are not NaN, NaN with fewer than two of them *)
RowStd(cells, cols) ==
    LET p == Present(cells, cols)
        m == Cardinality(p)
    IN  IF m < 2 THEN NaN
        ELSE Sqrt(m * SumSqOf(cells, p) - SumOf(cells, p) * SumOf(cells, p),
                  m * (m - 1))

(* df.loc[:, cols].count(axis=1) *)
RowCount(cells, cols) == Num(Units(Cardinality(Present(cells, cols))))

(* RowSum with a fault: a sum that skips NaN, as Series.sum() would. *)
RowSum_SkipNaN(cells, cols) == Num(SumOf(cells, Present(cells, cols)))

(* df[a] + df[b] + ... : NaN as soon as one operand is NaN *)
RowSum(cells, cols) ==
    IF Present(cells, cols) # cols THEN NaN ELSE Num(SumOf(cells, cols))

AddCells(x, y) ==
    IF x.k = "num" /\ y.k = "num" THEN Num(x.n + y.n) ELSE NaN

STAGE4_error(frame) ==
    IF (animate_cols \cup inanimate_cols \cup correct_cols \cup incorrect_cols)
            \subseteq frame.columns
    THEN "none" ELSE "KeyError"

STAGE4(frame) ==
    LET Step1(col, x) == IF col \in filler_cols THEN Clamp(x) ELSE x
        Step2(col, x) == IF col # "Q56" THEN to_numeric(x) ELSE x
        Step3(col, x) == IF col = "Q11" THEN AdjustQ11(x) ELSE x
        Coerced(cells) ==
            [col \in frame.columns |-> Step3(col, Step2(col, Step1(col, cells[col])))]
        Scored(cells) ==
            LET correct == RowSum(cells, correct_cols)
                incorrect == AddCells(RowSum(cells, incorrect_cols), Num(-Units(9)))
            IN  [col \in frame.columns |->
                  CASE col = "Animate (average interaction rating)" ->
                           RowMean(cells, animate_cols)
                    [] col = "Animate (SD)" -> RowStd(cells, animate_cols)
                    [] col = "Animate (n)" -> RowCount(cells, animate_cols)
                    [] col = "Inanimate (average interaction rating)" ->
                           RowMean(cells, inanimate_cols)
                    [] col = "Inanimate (SD)" -> RowStd(cells, inanimate_cols)
                    [] col = "Inanimate (n)" -> RowCount(cells, inanimate_cols)
                    [] col = "Filler score (correct)" -> correct
                    [] col = "Filler score (incorrect)" -> incorrect
                    [] col = "Filler score" -> AddCells(correct, incorrect)
                    [] OTHER -> cells[col]]
    IN  [frame EXCEPT !.rows =
            [r \in DOMAIN frame.rows |->
                [frame.rows[r] EXCEPT !.cells = Scored(Coerced(@))]]]

(* ------------------------------ STAGE 5 ------------------------------- *)
(* str.split(): the maximal runs of characters that are not whitespace *)
RECURSIVE SplitFrom(_, _, _)
SplitFrom(text, j, cur) ==
    IF j > Len(text)
    THEN IF cur = <<>> THEN <<>> ELSE <<cur>>
    ELSE IF text[j] = " "
         THEN IF cur = <<>> THEN SplitFrom(text, j + 1, <<>>)
              ELSE <<cur>> \o SplitFrom(text, j + 1, <<>>)
         ELSE SplitFrom(text, j + 1, Append(cur, text[j]))

split(text) == SplitFrom(text, 1, <<>>)

(* str.replace(old, new): every occurrence of old, found left to right
   without overlap, becomes new (old is never empty here) *)
RECURSIVE ReplaceFrom(_, _, _, _)
ReplaceFrom(text, old, new, j) ==
    IF j > Len(text) THEN <<>>
    ELSE IF j + Len(old) - 1 <= Len(text) /\ SubSeq(text, j, j + Len(old) - 1) = old
         THEN new \o ReplaceFrom(text, old, new, j + Len(old))
         ELSE <<text[j]>> \o ReplaceFrom(text, old, new, j + 1)

(* replace with a fault: only the first occurrence is replaced, as
   str.replace(old, new, 1) would. *)
RECURSIVE replace_first(_, _, _)
replace_first(text, old, new) ==
    IF Len(text) < Len(old) THEN text
    ELSE IF SubSeq(text, 1, Len(old)) = old
         THEN new \o SubSeq(text, Len(old) + 1, Len(text))
         ELSE <<Head(text)>> \o replace_first(Tail(text), old, new)

replace(text, old, new) == ReplaceFrom(text, old, new, 1)

(* The SpellChecker: its word list, the lower-casing unknown() does before
   the lookup, and the candidate correction() returns. *)
Word_owl == <<"o", "w", "l">>

Word_hat == <<"h", "a", "t">>

Word_own == <<"o", "w", "n">>

Word_owll == <<"o", "w", "l", "l">>

Word_ow == <<"o", "w">>

Word_Owll == <<"O", "w", "l", "l">>

Dictionary == { Word_owl, Word_hat, Word_own }

LowerChar(ch) == IF ch = "O" THEN "o" ELSE ch

Lower(w) == [j \in 1..Len(w) |-> LowerChar(w[j])]

(* spell.unknown(words): the lower-cased words that are not in the word list *)
unknown(words) ==
    { Lower(words[j]) : j \in DOMAIN words } \ Dictionary

(* spell.correction(word) *)
correction(w) ==
    CASE w = Word_owll -> Word_owl
      [] w = Word_ow -> Word_own
      [] OTHER -> w

(* df['Q56'].str.split().sum(): the token lists of all rows, concatenated *)
RECURSIVE AllWords(_, _)
AllWords(rows, r) ==
    IF r > Len(rows) THEN <<>>
    ELSE split(rows[r].cells["Q56"].c) \o AllWords(rows, r + 1)

(* The orders in which "for word in misspelled" can visit a set of strings *)
Orders(S) ==
    { o \in [1..Cardinality(S) -> S] : { o[j] : j \in DOMAIN o } = S }

(* correct_words(text), the corrections dict listing the misspelled words in
   the order given *)
RECURSIVE correct_words(_, _)
correct_words(text, order) ==
    IF order = <<>> THEN text
    ELSE correct_words(replace(text, Head(order), correction(Head(order))),
                       Tail(order))

specified_words ==
    { <<"o", "w", "l">>,
      <<"b", "e", "e">>,
      <<"m", "i", "n", "i", "s", "t", "e", "r">>,
      <<"b", "a", "b", "y">>,
      <<"s", "o", "l", "d", "i", "e", "r">>,
      <<"p", "y", "t", "h", "o", "n">>,
      <<"w", "o", "l", "f">>,
      <<"e", "n", "g", "i", "n", "e", "e", "r">>,
      <<"t", "r", "o", "u", "t">>,
      <<"t", "u", "r", "t", "l", "e">>,
      <<"s", "p", "i", "d", "e", "r">>,
      <<"d", "u", "c", "k">>,
      <<"d", "o", "l", "l">>,
      <<"d", "r", "u", "m">>,
      <<"p", "u", "r", "s", "e">>,
      <<"v", "i", "o", "l", "i", "n">>,
      <<"s", "l", "i", "p", "p", "e", "r", "s">>,
      <<"s", "t", "o", "v", "e">>,
      <<"r", "a", "k", "e">>,
      <<"j", "o", "u", "r", "n", "a", "l">>,
      <<"w", "h", "i", "s", "t", "l", "e">>,
      <<"t", "e", "n", "t">>,
      <<"h", "a", "t">>,
      <<"k", "i", "t", "e">> }

(* list.count(word) *)
RECURSIVE CountIn(_, _)
CountIn(words, w) ==
    IF words = <<>> THEN 0
    ELSE (IF Head(words) = w THEN 1 ELSE 0) + CountIn(Tail(words), w)

(* The tally of lines 150-152: counted in all_words, the list built at
   line 123 before any correction *)
WordCounts(all_words) == [w \in specified_words |-> CountIn(all_words, w)]

(* An empty frame makes the sum at line 123 the number 0, and a cell of Q56
   that is no string makes the split NaN: both end in a TypeError or an
   AttributeError before the stage returns. *)
STAGE5_error(frame) ==
    IF "Q56" \notin frame.columns THEN "KeyError"
    ELSE IF frame.rows = <<>> THEN "TypeError"
    ELSE IF \E r \in DOMAIN frame.rows : frame.rows[r].cells["Q56"].k # "str"
         THEN "TypeError"
         ELSE "none"

Misspelled(frame) == unknown(AllWords(frame.rows, 1))

STAGE5(frame, order) ==
    [frame EXCEPT !.rows =
        [r \in DOMAIN frame.rows |->
            [frame.rows[r] EXCEPT !.cells["Q56"] = Txt(correct_words(@.c, order))]]]

(* ------------------------- the input universe ------------------------- *)
(* An export as pd.read_excel returns it: the bookkeeping columns, Q1..Q56,
   a RangeIndex 0, 1, ..., and at the second position the row of question
   texts that STAGE1 removes. *)
RawCols == rem_cols \cup QRange(1, 56)

Text_owl_hat == Word_owl \o <<" ">> \o Word_hat

DefaultCells ==
    [col \in RawCols |->
        CASE col = "Progress" -> Num(Units(100))
          [] col = "Q3" -> Num(Units(25))
          [] col = "Q4" -> Str("Male")
          [] col = "Q5" -> Str("Other")
          [] col = "Q6" -> Str("English")
          [] col \in animate_cols \cup inanimate_cols -> Num(Units(4))
          [] col \in filler_cols -> Num(Units(1))
          [] col = "Q56" -> Txt(Text_owl_hat)
          [] OTHER -> Str("meta")]

HeaderCells == [col \in RawCols |-> Str("ImportId")]

Table(cols, cellsSeq) ==
    [columns |-> cols,
     rows |-> [r \in DOMAIN cellsSeq |->
        Row(r - 1, [col \in cols |-> cellsSeq[r][col]])]]

SeqsUpTo(S, n) == UNION { [1..m -> S] : m \in 0..n }

(* Tables whose rows differ in the two gatekeeping columns *)
GatePairs ==
    { <<Num(Units(100)), Num(Units(25))>>, <<Str("100"), Str("25")>>,
      <<Num(Units(99)), Num(Units(25))>>, <<Num(Units(100)), Num(Units(18))>>,
      <<Str("abc"), Num(Units(25))>> }

GateCells(g) == [DefaultCells EXCEPT !["Progress"] = g[1], !["Q3"] = g[2]]

GateTables ==
    { Table(RawCols, [r \in DOMAIN gs |-> GateCells(gs[r])]) :
        gs \in SeqsUpTo(GatePairs, MaxRows) }

(* Tables with one respondent whose demographic answers differ *)
RecodeTables ==
    { Table(RawCols,
        << [DefaultCells EXCEPT !["Q4"] = g, !["Q5"] = e, !["Q6"] = l],
           HeaderCells >>) :
        g \in { Str("Male"), Str("Female"), Str("Non-binary"), Str("3"), NaN,
                Str("I do not identify with one of the above categories") },
        e \in { Str("Other"), Str("Vocational training"),
                Str("Higher education (e.g., bachelor, master, Ph.D., ...)") },
        l \in { Str("English"), Str("Other"), Str("Dutch") } }

(* Tables with one respondent whose item answers differ: a base value for
   each interaction group and for the fillers, and one cell set apart *)
SpecialCols == { "Q10", "Q11", "Q21", "Q22", "Q33", "Q36", "Q46", "Q47", "Q55" }

SpecialVals ==
    { Num(1), Num(Units(-3)), Num(Units(7)), Num(Units(1)), Str("abc"),
      Str("1"), Str("0.5"), NaN }

ItemCells(a, b, f, sc, sv) ==
    [col \in RawCols |->
        CASE col = sc -> sv
          [] col \in animate_cols -> a
          [] col \in inanimate_cols -> b
          [] col \in filler_cols -> f
          [] OTHER -> DefaultCells[col]]

ItemTables ==
    { Table(RawCols, << ItemCells(a, b, f, sc, sv), HeaderCells >>) :
        a \in { Num(Units(4)), NaN }, b \in { Str("5"), NaN },
        f \in { Num(Units(1)), Num(Units(0)) },
        sc \in SpecialCols, sv \in SpecialVals }

(* Tables with two respondents whose free text differs *)
Vocabulary == { Word_owl, Word_owll, Word_ow, Word_hat, Word_Owll }

RECURSIVE Join(_)
Join(ws) ==
    IF ws = <<>> THEN <<>>
    ELSE IF Len(ws) = 1 THEN ws[1]
    ELSE ws[1] \o <<" ">> \o Join(Tail(ws))

Texts == { Txt(Join(ws)) : ws \in SeqsUpTo(Vocabulary, MaxTokens) } \cup { NaN }

OtherTexts ==
    { Txt(Word_owll), Txt(<<" ">> \o Word_hat \o <<" ", " ">> \o Word_ow),
      Txt(Word_owl \o <<" ">> \o Word_owll) }

TextTables ==
    { Table(RawCols,
        << [DefaultCells EXCEPT !["Q56"] = t1], HeaderCells,
           [DefaultCells EXCEPT !["Q56"] = t2] >>) :
        t1 \in Texts, t2 \in OtherTexts }

(* Whole files, some of which lack what a stage requires *)
GoodTable == Table(RawCols, << DefaultCells, HeaderCells, DefaultCells >>)

WholeTables ==
    { GoodTable,
      Table(RawCols \ {"Progress"}, << DefaultCells, HeaderCells, DefaultCells >>),
      Table(RawCols \ {"Q36"}, << DefaultCells, HeaderCells, DefaultCells >>),
      Table(RawCols \ {"Q56"}, << DefaultCells, HeaderCells, DefaultCells >>),
      Table(RawCols, << DefaultCells >>) }

InputFiles ==
    SeqsUpTo(WholeTables, MaxFiles)
        \cup { <<t>> : t \in GateTables \cup RecodeTables \cup ItemTables \cup TextTables }

(* ------------------------------ PROCESS ------------------------------- *)
WithoutIndex(frame) ==
    [columns |-> frame.columns,
     rows |-> [r \in DOMAIN frame.rows |-> frame.rows[r].cells]]

Init ==
    /\ files \in InputFiles
    /\ i = 1
    /\ pc = "loop"
    /\ err = "none"
    /\ df = NoDF
    /\ df_stage1 = NoDF
    /\ df_stage2 = NoDF
    /\ df_stage3 = NoDF
    /\ df_stage4 = NoDF
    /\ word_counts = << >>
    /\ processed_dfs = << >>
    /\ out_files = << >>

(* An exception leaves the stage, the loop and PROCESS: nothing catches it.
   pc stays at the call that raised, and no action is enabled any more. *)
Raise(e) ==
    /\ err' = e
    /\ UNCHANGED <<files, i, pc, df, df_stage1, df_stage2, df_stage3, df_stage4,
                   word_counts, processed_dfs, out_files>>

(* line 166: df = pd.read_excel(excel_file) *)
ReadExcel ==
    /\ pc = "loop"
    /\ err = "none"
    /\ i <= Len(files)
    /\ df' = files[i]
    /\ pc' = "stage1"
    /\ UNCHANGED <<files, i, err, df_stage1, df_stage2, df_stage3, df_stage4,
                   word_counts, processed_dfs, out_files>>

(* line 169: df_stage1 = STAGE1(df.copy()) *)
Stage1 ==
    /\ pc = "stage1"
    /\ err = "none"
    /\ IF STAGE1_error(df) # "none"
       THEN Raise(STAGE1_error(df))
       ELSE /\ df_stage1' = STAGE1(df)
            /\ pc' = "stage2"
            /\ UNCHANGED <<files, i, err, df, df_stage2, df_stage3, df_stage4,
                           word_counts, processed_dfs, out_files>>

(* line 170: df_stage2 = STAGE2(df_stage1.copy()) *)
Stage2 ==
    /\ pc = "stage2"
    /\ err = "none"
    /\ df_stage2' = STAGE2(df_stage1)
    /\ pc' = "stage3"
    /\ UNCHANGED <<files, i, err, df, df_stage1, df_stage3, df_stage4,
                   word_counts, processed_dfs, out_files>>

(* line 171: df_stage3 = STAGE3(df_stage2.copy()) *)
Stage3 ==
    /\ pc = "stage3"
    /\ err = "none"
    /\ df_stage3' = STAGE3(df_stage2)
    /\ pc' = "stage4"
    /\ UNCHANGED <<files, i, err, df, df_stage1, df_stage2, df_stage4,
                   word_counts, processed_dfs, out_files>>

(* line 172: df_stage4 = STAGE4(df_stage3.copy()) *)
Stage4 ==
    /\ pc = "stage4"
    /\ err = "none"
    /\ IF STAGE4_error(df_stage3) # "none"
       THEN Raise(STAGE4_error(df_stage3))
       ELSE /\ df_stage4' = STAGE4(df_stage3)
            /\ pc' = "stage5"
            /\ UNCHANGED <<files, i, err, df, df_stage1, df_stage2, df_stage3,
                           word_counts, processed_dfs, out_files>>

(* line 173: df_stage5 = STAGE5(df_stage4).  STAGE5 works on the frame it is
   given, so df_stage5 and df_stage4 are one object; word_counts is the
   stage's local tally, which it does not return. *)
Stage5 ==
    /\ pc = "stage5"
    /\ err = "none"
    /\ IF STAGE5_error(df_stage4) # "none"
       THEN Raise(STAGE5_error(df_stage4))
       ELSE /\ \E order \in Orders(Misspelled(df_stage4)) :
                    df_stage4' = STAGE5(df_stage4, order)
            /\ word_counts' = WordCounts(AllWords(df_stage4.rows, 1))
            /\ pc' = "save"
            /\ UNCHANGED <<files, i, err, df, df_stage1, df_stage2, df_stage3,
                           processed_dfs, out_files>>

(* lines 176-180: to_excel(output_file_name, index=False) and
   processed_dfs[excel_file] = df_stage5, then the next file *)
ToExcel ==
    /\ pc = "save"
    /\ err = "none"
    /\ out_files' = (i :> WithoutIndex(df_stage4)) @@ out_files
    /\ processed_dfs' = (i :> df_stage4) @@ processed_dfs
    /\ i' = i + 1
    /\ pc' = "loop"
    /\ UNCHANGED <<files, err, df, df_stage1, df_stage2, df_stage3, df_stage4,
                   word_counts>>

(* line 182: return processed_dfs *)
Return ==
    /\ pc = "loop"
    /\ err = "none"
    /\ i > Len(files)
    /\ pc' = "done"
    /\ UNCHANGED <<files, i, err, df, df_stage1, df_stage2, df_stage3, df_stage4,
                   word_counts, processed_dfs, out_files>>

Next ==
    \/ ReadExcel
    \/ Stage1
    \/ Stage2
    \/ Stage3
    \/ Stage4
    \/ Stage5
    \/ ToExcel
    \/ Return

Spec == Init /\ [][Next]_vars

(* ------------------------------ claims -------------------------------- *)
(* The output of stage k exists: the current file is past the stage, or an
   earlier file went through all of them. *)
Has1 == i > 1 \/ pc \in {"stage2", "stage3", "stage4", "stage5", "save"}

Has2 == i > 1 \/ pc \in {"stage3", "stage4", "stage5", "save"}

Has3 == i > 1 \/ pc \in {"stage4", "stage5", "save"}

Has4 == i > 1 \/ pc \in {"stage5", "save"}

Q56Tokens(frame, r) == split(frame.rows[r].cells["Q56"].c)

(* C1: for every raw table that has the two gatekeeping columns, tables with
   fewer than two rows included, STAGE1 completes, and it returns as many
   records as there are raw records, the one at the second position apart,
   whose Progress is above 99 and whose Q3 is above 18 after coercion. *)
C1_Expected(raw) ==
    Cardinality({ r \in DOMAIN raw.rows :
        /\ r # 2
        /\ Gt(to_numeric(raw.rows[r].cells["Progress"]), 99)
        /\ Gt(to_numeric(raw.rows[r].cells["Q3"]), 18) })

C1_FilterCompletesAndCounts ==
    (pc \in {"stage1", "stage2"} /\ {"Progress", "Q3"} \subseteq df.columns)
        => /\ err = "none"
           /\ pc = "stage2" => Len(df_stage1.rows) = C1_Expected(df)

(* C2: after STAGE1 and after every later stage, SubID read in record order
   is 1, 2, ..., n, and the records keep their original relative order. *)
C2_Sequential(frame) ==
    /\ "SubID" \in frame.columns
    /\ \A r \in DOMAIN frame.rows : frame.rows[r].cells["SubID"] = Num(Units(r))
    /\ \A r, q \in DOMAIN frame.rows :
            r < q => frame.rows[r].label < frame.rows[q].label

C2_SubIDSequential ==
    /\ Has1 => C2_Sequential(df_stage1)
    /\ Has2 => C2_Sequential(df_stage2)
    /\ Has3 => C2_Sequential(df_stage3)
    /\ Has4 => C2_Sequential(df_stage4)
    /\ \A j \in DOMAIN processed_dfs : C2_Sequential(processed_dfs[j])
    /\ \A j \in DOMAIN out_files :
          \A r \in DOMAIN out_files[j].rows :
              out_files[j].rows[r]["SubID"] = Num(Units(r))

(* C2 witness: a saved table of two records, a record between them having
   been excluded. *)
C2_Witness ==
    /\ pc = "save"
    /\ Len(df_stage4.rows) = 2
    /\ df_stage4.rows[2].label - df_stage4.rows[1].label > 2

(* C3: after STAGE4 every cell of Q36..Q55 is 0, 1 or missing. *)
C3_FillerCellsBinary ==
    Has4 => \A r \in DOMAIN df_stage4.rows : \A col \in filler_cols :
                df_stage4.rows[r].cells[col] \in { Num(Units(0)), Num(Units(1)), NaN }

(* C4: the keyword tally of STAGE5 counts each keyword among the tokens of
   the corrected Q56 column. *)
C4_TallyOverCorrectedText ==
    pc = "save" =>
        \A w \in specified_words :
            word_counts[w] = CountIn(AllWords(df_stage4.rows, 1), w)

(* C5: when the run of one file fails, every other file of the sequence that
   runs cleanly on its own is still processed and written. *)
C5_RunsCleanly(raw) ==
    /\ STAGE1_error(raw) = "none"
    /\ STAGE4_error(STAGE3(STAGE2(STAGE1(raw)))) = "none"
    /\ STAGE5_error(STAGE4(STAGE3(STAGE2(STAGE1(raw))))) = "none"

C5_OtherTablesProcessed ==
    (pc = "done" \/ err # "none") =>
        \A j \in DOMAIN files :
            C5_RunsCleanly(files[j]) =>
                j \in DOMAIN out_files /\ j \in DOMAIN processed_dfs

(* C6: 'Filler score' is 'Filler score (correct)' plus 'Filler score
   (incorrect)', the first the sum of Q36..Q46, the second the sum of
   Q47..Q55 minus 9; a missing item makes its group's sum and the composite
   missing. *)
C6_Row(cells) ==
    LET correct == cells["Filler score (correct)"]
        incorrect == cells["Filler score (incorrect)"]
        score == cells["Filler score"]
        okC == \A col \in correct_cols : cells[col].k = "num"
        okI == \A col \in incorrect_cols : cells[col].k = "num"
    IN  /\ okC => correct = Num(SumOf(cells, correct_cols))
        /\ ~okC => correct = NaN
        /\ okI => incorrect = Num(SumOf(cells, incorrect_cols) - Units(9))
        /\ ~okI => incorrect = NaN
        /\ (okC /\ okI) => score = Num(correct.n + incorrect.n)
        /\ ~(okC /\ okI) => score = NaN

C6_FillerScoreIdentity ==
    Has4 => \A r \in DOMAIN df_stage4.rows : C6_Row(df_stage4.rows[r].cells)

(* C6 witness: a record with a missing item among Q47..Q55, whose correct
   sum is a number and whose incorrect sum and composite are missing. *)
C6_Witness ==
    /\ pc = "stage5"
    /\ \E r \in DOMAIN df_stage4.rows :
          /\ df_stage4.rows[r].cells["Q47"] = NaN
          /\ df_stage4.rows[r].cells["Filler score (correct)"] = Num(Units(11))
          /\ df_stage4.rows[r].cells["Filler score"] = NaN

(* C7: for both interaction groups STAGE4 writes the number of non-missing
   items as the count, and the mean and sample standard deviation of the
   non-missing items: mean and SD undefined and count 0 when all are
   missing, SD undefined and count 1 when one is present; the stage does not
   fail. *)
C7_Group(cells, cols, mean, sd, cnt) ==
    LET p == { col \in cols : cells[col].k = "num" }
        m == Cardinality(p)
        sum == SumOf(cells, p)
        sumsq == SumSqOf(cells, p)
    IN  /\ cells[cnt] = Num(Units(m))
        /\ m = 0 => cells[mean] = NaN /\ cells[sd] = NaN
        /\ m = 1 => cells[sd] = NaN
        /\ m >= 1 => cells[mean].k = "num" /\ cells[mean].n * m = sum * cells[mean].d
        /\ m >= 2 => /\ cells[sd].k = "sqrt"
                     /\ cells[sd].n * m * (m - 1) = (m * sumsq - sum * sum) * cells[sd].d

C7_GroupStatistics ==
    /\ (pc = "stage4" /\ STAGE4_error(df_stage3) = "none") => err = "none"
    /\ Has4 => \A r \in DOMAIN df_stage4.rows :
          /\ C7_Group(df_stage4.rows[r].cells, animate_cols,
                "Animate (average interaction rating)", "Animate (SD)", "Animate (n)")
          /\ C7_Group(df_stage4.rows[r].cells, inanimate_cols,
                "Inanimate (average interaction rating)", "Inanimate (SD)",
                "Inanimate (n)")

(* C7 witness: a record with exactly one animate item present and no
   inanimate item present. *)
C7_Witness ==
    /\ pc = "stage5"
    /\ \E r \in DOMAIN df_stage4.rows :
          /\ df_stage4.rows[r].cells["Animate (n)"] = Num(Units(1))
          /\ df_stage4.rows[r].cells["Animate (SD)"] = NaN
          /\ df_stage4.rows[r].cells["Animate (average interaction rating)"].k = "num"
          /\ df_stage4.rows[r].cells["Inanimate (n)"] = Num(Units(0))
          /\ df_stage4.rows[r].cells["Inanimate (average interaction rating)"] = NaN

(* C8: within one table, two occurrences of the same misspelled token, in
   the same record or in two, are replaced by the same text. *)
C8_SameTokenSameCorrection ==
    pc = "save" =>
        \A r, q \in DOMAIN df_stage4.rows :
            \A a \in DOMAIN Q56Tokens(df_stage3, r) :
                \A b \in DOMAIN Q56Tokens(df_stage3, q) :
                    (/\ Q56Tokens(df_stage3, r)[a] = Q56Tokens(df_stage3, q)[b]
                     /\ Q56Tokens(df_stage3, r)[a] \in Misspelled(df_stage3))
                    => /\ Len(Q56Tokens(df_stage4, r)) = Len(Q56Tokens(df_stage3, r))
                       /\ Len(Q56Tokens(df_stage4, q)) = Len(Q56Tokens(df_stage3, q))
                       /\ Q56Tokens(df_stage4, r)[a] = Q56Tokens(df_stage4, q)[b]

(* C8 witness: two records hold the same misspelled token twice and once,
   and the token has been changed. *)
C8_Witness ==
    /\ pc = "save"
    /\ \E r, q \in DOMAIN df_stage4.rows :
          /\ r # q
          /\ Q56Tokens(df_stage3, r) = <<Word_owll, Word_owll>>
          /\ Q56Tokens(df_stage3, q) = <<Word_owll>>
          /\ Q56Tokens(df_stage4, q) = <<Word_owl>>

(* C9: a value of Gender, Education or Native Language that is no key of the
   recode map is left unchanged by STAGE2 and by STAGE4. *)
C9_Unmapped(col, x) ==
    ~(x.k = "str" /\ x.s \in DOMAIN recode_dict[col])

C9_UnmappedValueSurvives ==
    (pc \in {"stage5", "save"} /\ err = "none") =>
        \A r \in DOMAIN df_stage1.rows : \A o \in DOMAIN renaming_dict :
            C9_Unmapped(renaming_dict[o], df_stage1.rows[r].cells[o])
            => /\ df_stage2.rows[r].cells[renaming_dict[o]] = df_stage1.rows[r].cells[o]
               /\ df_stage4.rows[r].cells[renaming_dict[o]] = df_stage1.rows[r].cells[o]

(* C10: the corrected Q56 text is the same for every order in which the
   pairs of the corrections dict are applied. *)
C10_OrderIndependent ==
    pc = "save" =>
        \A order \in Orders(Misspelled(df_stage3)) :
            \A r \in DOMAIN df_stage4.rows :
                df_stage4.rows[r].cells["Q56"].c
                    = correct_words(df_stage3.rows[r].cells["Q56"].c, order)

====
